---------------------------- MODULE Spec2Model ----------------------------
(***************************************************************************)
(* Remote browser session engine.                                          *)
(*                                                                         *)
(*   Spec        src/app.py: the polling transport.  One asyncio task per  *)
(*               control connection (websocket_endpoint) plus its frame    *)
(*               task (send_screenshots); every step below is the code     *)
(*               between two awaits.  Two connections, two session ids.    *)
(*   SpecMouse   the same steps with every pointer event as input.         *)
(*   SpecInput   the same steps for one connection with every kind of      *)
(*               control message as input.                                 *)
(*   SpecSignal  src/request_listen.py: websocket_offer, the signaling of  *)
(*               the real-time transport.                                  *)
(*   SpecOffers  the same signaling steps for two connections.             *)
(*   SpecTrack   src/request_listen.py: one BrowserTrack.                  *)
(*   SpecPacing  the frame loops of src/app.py and src/CDP-cv2.py against  *)
(*               the clock.                                                *)
(***************************************************************************)
EXTENDS Integers, Sequences, FiniteSets, TLC

(***************************************************************************)
(* Bounds                                                                  *)
(***************************************************************************)
NumContents == 2

\* control connections; each connects once
Conns == {1, 2}
\* a browser is named after the connection whose start_browser_session launched it
Browsers == Conns
NoBrowser == 0
SessionIds == {"s1", "s2"}
Contents == 0..(NumContents - 1)

(***************************************************************************)
(* Frames: page.screenshot(type="jpeg", quality=q) encodes the rendered    *)
(* page at quality q; base64.b64encode is injective, so the base64 text    *)
(* is determined by (rendered content, quality) and differs when either    *)
(* differs.                                                                *)
(***************************************************************************)
InitialQuality == 85
LoopQuality == 80
NoFrame == [content |-> -1, quality |-> 0]
Screenshot(c, q) == [content |-> c, quality |-> q]

(***************************************************************************)
(* Text as sequences of characters.                                        *)
(***************************************************************************)
HttpPrefix == <<"h", "t", "t", "p", ":", "/", "/">>
HttpsPrefix == <<"h", "t", "t", "p", "s", ":", "/", "/">>
HostText == <<"a", ".", "b">>
StartsWith(s, p) == Len(s) >= Len(p) /\ SubSeq(s, 1, Len(p)) = p
HasScheme(url) == StartsWith(url, HttpPrefix) \/ StartsWith(url, HttpsPrefix)
Urls == {HostText, HttpPrefix \o HostText, HttpsPrefix \o HostText,
         <<"h", "t", "t", "p">> \o HostText}

VARIABLES
    active_sessions,  \* dict session_id -> session record (app.py:22)
    browser_state,    \* per browser: "unused", "open", "closed"
    pc,               \* per connection: where websocket_endpoint is suspended
    sid,              \* per connection: its session_id path parameter
    page,             \* per connection: the local `page` (browser it belongs to)
    chan,             \* per connection: client side of the websocket
    event,            \* per connection: the message being handled
    cmds,             \* per connection: browser calls of the running handler, head in flight
    task,             \* per connection: where send_screenshots is suspended
    cancel,           \* per connection: screenshot_task.cancel() was requested
    shot,             \* per connection: the local base64_image while a send awaits
    closing,          \* per connection: browser of the local `session` in close_browser_session
    lastSent,         \* history: last screenshot message sent on the live connection
    lastBtnEvent,     \* history: last mousedown/mouseup/dblclick handled for the session
    destroyed,        \* history: the id's last registry event was its deletion
    midCapture,       \* history: the client went away while the frame task was capturing
    button,           \* per browser: its mouse button is held down
    \* src/request_listen.py (the real-time transport)
    pcs,              \* the global set of peer connections (request_listen.py:42)
    browser,          \* the global browser: 0 (None) or the launch it refers to
    launched,         \* browsers launched by initialize_browser so far
    playwright_instance, \* the global playwright_instance: 0 (None) or the start it refers to
    started,          \* playwright drivers started by initialize_browser so far
    rtc_page,         \* the global page: 0 (None) or the launch whose page it is
    init_pc,          \* per signaling connection: the await of initialize_browser it is
                      \* suspended in ("start", "launch", "new_page", "goto"), else "none"
    own_browser,      \* per signaling connection: the launch its initialize_browser made
    rtc_pc,           \* per signaling connection: where websocket_offer is suspended
    rtc_chan,         \* per signaling connection: client side of the websocket
    offer_sdp,        \* per signaling connection: the local offer_sdp, NoDescription if unset
    browser_track,    \* per signaling connection: "none", "running", "stopped"
    answers,          \* per signaling connection: answers sent
    candidates,       \* per signaling connection: candidates the peer connection holds
    firstMsg,         \* history: the first inbound message
    lastMsg,          \* history: the last message taken by the candidate loop
    local_description,\* per signaling connection: what the negotiation left as
                      \* pc.localDescription ("unset" before)
    closes,           \* history: per signaling connection, pc.close() calls made
    server,           \* lifespan_manager: "running", "closing" (line 27), "stopped"
    \* frame pacing of the two capture loops, in thirds of a millisecond
    app_pc, app_since, app_gap,
    cdp_pc, cdp_running, cdp_since, cdp_sleep, cdp_gap,
    app_raised,       \* history: a page.screenshot of send_screenshots raised
    cdp_raised,       \* history: a capture_frame of run_capture_loop raised
    \* one BrowserTrack (request_listen.py:46-88)
    track_pc,         \* "off" (not constructed), "created" (the capture task has not
                      \* run yet), or where capture_frames is suspended: "capture",
                      \* "sleep"; "stopped" once it was cancelled
    next_timestamp,   \* whether the track has the method next_timestamp that recv calls
    track_frame,      \* self.frame
    last_capture,     \* history: "none", or how the most recent capture ended
    recv_pc,          \* "none", or "next_timestamp" while a recv() call awaits it
    recv_frame,       \* history: the frame recv() last returned
    recv_count,       \* history: frames recv() returned
    recv_calls        \* history: recv() calls made

pollVars == <<active_sessions, browser_state, pc, sid, page, chan, event, cmds,
              task, cancel, shot, closing, lastSent, lastBtnEvent, destroyed,
              midCapture, button>>
initVars == <<playwright_instance, started, rtc_page, init_pc, own_browser>>
rtcVars == <<pcs, browser, launched, rtc_pc, rtc_chan, offer_sdp, browser_track, answers,
             candidates, firstMsg, lastMsg, local_description, closes, server, initVars>>
paceVars ==
    <<app_pc, app_since, app_gap, cdp_pc, cdp_running, cdp_since, cdp_sleep, cdp_gap,
      app_raised, cdp_raised>>
trackVars ==
    <<track_pc, next_timestamp, track_frame, last_capture, recv_pc, recv_frame,
      recv_count, recv_calls>>
vars == <<pollVars, rtcVars, paceVars, trackVars>>


(***************************************************************************)
(* Control-channel messages (spec section 6), as the client may send them. *)
(***************************************************************************)
MouseEventTypes == {"mousedown", "mouseup", "mousemove", "dblclick"}
Keys == {"Enter", "a", "F5", "Shift"}
NoEvent == [type |-> "none"]
Messages ==
    [type : {"mouse"}, eventType : MouseEventTypes, x : {3}, y : {4}]
        \cup [type : {"keyboard"}, eventType : {"keydown", "keyup"}, key : Keys,
              shiftKey : BOOLEAN, ctrlKey : BOOLEAN, altKey : BOOLEAN, metaKey : BOOLEAN]
        \cup [type : {"scroll"}, deltaX : {0}, deltaY : {120}]
        \cup [type : {"navigation"}, url : Urls]
        \cup [type : {"resize"}, width : {800}, height : {600}]
        \cup [type : {"other"}]
        \cup [type : {"malformed"}]

(***************************************************************************)
(* The session registry: active_sessions and the two functions on it.      *)
(***************************************************************************)
NewSession(b) == [browser |-> b, last_screenshot |-> NoFrame, mouse_down |-> FALSE]

\* active_sessions[session_id] = {...}
Register(reg, id, b) ==
    [k \in (DOMAIN reg) \cup {id} |-> IF k = id THEN NewSession(b) ELSE reg[k]]

\* (variant: the entry is left in the registry)
UnregisterKeepsEntry(reg, id) == reg

\* (variant: the whole registry is emptied)
UnregisterAll(reg, id) == [k \in {} |-> NewSession(NoBrowser)]

\* del active_sessions[session_id]
Unregister(reg, id) == [k \in (DOMAIN reg) \ {id} |-> reg[k]]

(***************************************************************************)
(* handle_mouse_event: the flag update, then the browser calls it awaits.  *)
(***************************************************************************)
\* (variant: dblclick is not treated as a release)
MouseDownAfterIgnoringDblclick(flag, event_type) ==
    IF event_type = "mousedown" THEN TRUE
    ELSE IF event_type = "mouseup" THEN FALSE
    ELSE flag

MouseDownAfter(flag, event_type) ==
    IF event_type = "mousedown" THEN TRUE
    ELSE IF event_type \in {"mouseup", "dblclick"} THEN FALSE
    ELSE flag

MouseMove(e) == [op |-> "mouse.move", x |-> e.x, y |-> e.y]

MouseCalls(e) ==
    <<MouseMove(e)>> \o
    (IF e.eventType = "mousedown" THEN <<[op |-> "mouse.click", x |-> e.x, y |-> e.y]>>
     ELSE IF e.eventType = "mouseup" THEN <<[op |-> "mouse.up"]>>
     ELSE IF e.eventType = "dblclick"
          THEN <<[op |-> "mouse.down"], [op |-> "mouse.up"], [op |-> "sleep"],
                 [op |-> "mouse.down"], [op |-> "mouse.up"]>>
     ELSE IF e.eventType = "mousemove" THEN <<[op |-> "if_mouse_down"]>>
     ELSE <<>>)

(***************************************************************************)
(* handle_keyboard_event                                                   *)
(***************************************************************************)
\* lines 95-105: the modifiers list (it is passed to no call)
Modifiers(e) ==
    {m \in {"Shift", "Control", "Alt", "Meta"} :
        \/ m = "Shift" /\ e.shiftKey
        \/ m = "Control" /\ e.ctrlKey
        \/ m = "Alt" /\ e.altKey
        \/ m = "Meta" /\ e.metaKey}

special_keys == {"Backspace", "Enter", "Tab", "Escape", "ArrowLeft", "ArrowRight",
                 "ArrowUp", "ArrowDown", "Delete", "Home", "End", "PageUp", "PageDown"}

\* (variant: every key that is not special is typed)
KeyboardCallsTypingAnyKey(e) ==
    <<[op |-> "bring_to_front"]>> \o
    (IF e.eventType = "keydown"
     THEN IF e.key \in special_keys THEN <<[op |-> "keyboard.press", key |-> e.key]>>
          ELSE <<[op |-> "keyboard.type", key |-> e.key]>>
     ELSE <<>>)

KeyboardCalls(e) ==
    <<[op |-> "bring_to_front"]>> \o
    (IF e.eventType = "keydown"
     THEN IF e.key \in special_keys THEN <<[op |-> "keyboard.press", key |-> e.key]>>
          ELSE IF Len(e.key) = 1 THEN <<[op |-> "keyboard.type", key |-> e.key]>>
          ELSE IF e.key = "F5" THEN <<[op |-> "reload"]>>
          ELSE <<>>
     ELSE <<>>)

\* handle_scroll_event
ScrollCalls(e) == <<[op |-> "mouse.wheel", dx |-> e.deltaX, dy |-> e.deltaY]>>

\* handle_navigation_event: page.goto(url), the url as it arrived
NavigationCalls(e) == <<[op |-> "goto", url |-> e.url]>>

\* page.set_viewport_size({...})
ResizeCalls(e) == <<[op |-> "set_viewport_size", width |-> e.width, height |-> e.height]>>

\* the browser calls the receive loop awaits for message m, in order
HandlerCalls(m) ==
    IF m.type = "mouse" THEN MouseCalls(m)
    ELSE IF m.type = "keyboard" THEN KeyboardCalls(m)
    ELSE IF m.type = "scroll" THEN ScrollCalls(m)
    ELSE IF m.type = "navigation" THEN NavigationCalls(m)
    ELSE IF m.type = "resize" THEN ResizeCalls(m)
    ELSE <<>>

(***************************************************************************)
(* The browser capability.  A call completes normally only on a page whose *)
(* context is still open; page.goto also raises for a url without a scheme *)
(* ("Cannot navigate to invalid URL").  asyncio.sleep never fails.         *)
(***************************************************************************)
PageUsable(b) == b # NoBrowser /\ browser_state[b] = "open"

CallSucceeds(b, call) ==
    IF call.op = "sleep" THEN TRUE
    ELSE IF call.op = "goto" THEN PageUsable(b) /\ HasScheme(call.url)
    ELSE PageUsable(b)

TypeOK ==
    /\ DOMAIN active_sessions \subseteq SessionIds
    /\ browser_state \in [Browsers -> {"unused", "open", "closed"}]
    /\ pc \in [Conns -> {"idle", "launch", "initial_capture", "initial_send", "receive",
                         "dispatch", "finally", "close_context", "close_browser", "done"}]
    /\ sid \in [Conns -> SessionIds]
    /\ page \in [Conns -> Browsers \cup {NoBrowser}]
    /\ chan \in [Conns -> {"open", "closed"}]
    /\ task \in [Conns -> {"none", "idle", "capture", "send", "ended"}]
    /\ cancel \in [Conns -> BOOLEAN]
    /\ closing \in [Conns -> Browsers \cup {NoBrowser}]
    /\ destroyed \in [SessionIds -> BOOLEAN]
    /\ midCapture \in [Conns -> BOOLEAN]
    /\ button \in [Browsers -> BOOLEAN]

PollInit ==
    /\ active_sessions = [k \in {} |-> NewSession(NoBrowser)]
    /\ browser_state = [b \in Browsers |-> "unused"]
    /\ pc = [c \in Conns |-> "idle"]
    /\ sid = [c \in Conns |-> "s1"]
    /\ page = [c \in Conns |-> NoBrowser]
    /\ chan = [c \in Conns |-> "open"]
    /\ event = [c \in Conns |-> NoEvent]
    /\ cmds = [c \in Conns |-> <<>>]
    /\ task = [c \in Conns |-> "none"]
    /\ cancel = [c \in Conns |-> FALSE]
    /\ shot = [c \in Conns |-> NoFrame]
    /\ closing = [c \in Conns |-> NoBrowser]
    /\ lastSent = [c \in Conns |-> NoFrame]
    /\ lastBtnEvent = [k \in SessionIds |-> "none"]
    /\ destroyed = [k \in SessionIds |-> FALSE]
    /\ midCapture = [c \in Conns |-> FALSE]
    /\ button = [b \in Browsers |-> FALSE]

(***************************************************************************)
(* websocket_endpoint, up to the receive loop                              *)
(***************************************************************************)
\* websocket.accept() returns; the registry lookup of lines 161-164
Connect(c, id) ==
    /\ UNCHANGED <<rtcVars, paceVars, trackVars, button>>
    /\ pc[c] = "idle"
    /\ sid' = [sid EXCEPT ![c] = id]
    /\ IF id \in DOMAIN active_sessions
       THEN /\ page' = [page EXCEPT ![c] = active_sessions[id].browser]
            /\ pc' = [pc EXCEPT ![c] = "initial_capture"]
       ELSE /\ pc' = [pc EXCEPT ![c] = "launch"]
            /\ page' = page
    /\ UNCHANGED <<active_sessions, browser_state, chan, event, cmds, task,
                   cancel, shot, closing, lastSent, lastBtnEvent, destroyed,
                   midCapture>>

\* start_browser_session: the launch awaits return, the session is registered
StartBrowserSession(c) ==
    /\ UNCHANGED <<rtcVars, paceVars, trackVars, button>>
    /\ pc[c] = "launch"
    /\ browser_state[c] = "unused"
    /\ browser_state' = [browser_state EXCEPT ![c] = "open"]
    /\ active_sessions' = Register(active_sessions, sid[c], c)
    /\ page' = [page EXCEPT ![c] = c]
    /\ pc' = [pc EXCEPT ![c] = "initial_capture"]
    /\ lastBtnEvent' = [lastBtnEvent EXCEPT ![sid[c]] = "none"]
    /\ destroyed' = [destroyed EXCEPT ![sid[c]] = FALSE]
    /\ UNCHANGED <<sid, chan, event, cmds, task, cancel, shot, closing,
                   lastSent, midCapture>>

\* line 168: the initial page.screenshot returns what the page renders at that moment
\* (v: the page changes on its own and under input), or raises
InitialCapture(c, v) ==
    /\ UNCHANGED <<rtcVars, paceVars, trackVars, button>>
    /\ pc[c] = "initial_capture"
    /\ IF PageUsable(page[c])
       THEN /\ shot' = [shot EXCEPT ![c] = Screenshot(v, InitialQuality)]
            /\ pc' = [pc EXCEPT ![c] = "initial_send"]
       ELSE /\ pc' = [pc EXCEPT ![c] = "finally"]
            /\ shot' = shot
    /\ UNCHANGED <<active_sessions, browser_state, sid, page, chan, event, cmds,
                   task, cancel, closing, lastSent, lastBtnEvent, destroyed,
                   midCapture>>

\* (variant: the initial frame is sent only if the session has no last_screenshot yet)
InitialSendUnlessResumed(c) ==
    /\ UNCHANGED <<rtcVars, paceVars, trackVars, button>>
    /\ pc[c] = "initial_send"
    /\ IF chan[c] = "open"
       THEN /\ lastSent' = [lastSent EXCEPT ![c] =
                    IF sid[c] \in DOMAIN active_sessions
                       /\ active_sessions[sid[c]].last_screenshot # NoFrame
                    THEN @ ELSE shot[c]]
            /\ task' = [task EXCEPT ![c] = "idle"]
            /\ pc' = [pc EXCEPT ![c] = "receive"]
       ELSE /\ pc' = [pc EXCEPT ![c] = "finally"]
            /\ UNCHANGED <<lastSent, task>>
    /\ shot' = [shot EXCEPT ![c] = NoFrame]
    /\ UNCHANGED <<active_sessions, browser_state, sid, page, chan, event, cmds,
                   cancel, closing, lastBtnEvent, destroyed, midCapture>>

\* lines 170-173 and 198: the initial send_json returns or raises; on return the frame
\* task is created
InitialSend(c) ==
    /\ UNCHANGED <<rtcVars, paceVars, trackVars, button>>
    /\ pc[c] = "initial_send"
    /\ IF chan[c] = "open"
       THEN /\ lastSent' = [lastSent EXCEPT ![c] = shot[c]]
            /\ task' = [task EXCEPT ![c] = "idle"]
            /\ pc' = [pc EXCEPT ![c] = "receive"]
       ELSE /\ pc' = [pc EXCEPT ![c] = "finally"]
            /\ UNCHANGED <<lastSent, task>>
    /\ shot' = [shot EXCEPT ![c] = NoFrame]
    /\ UNCHANGED <<active_sessions, browser_state, sid, page, chan, event, cmds,
                   cancel, closing, lastBtnEvent, destroyed, midCapture>>

(***************************************************************************)
(* send_screenshots, the frame task                                        *)
(***************************************************************************)
\* the task is first scheduled, or asyncio.sleep(0.001) returns: line 180 is issued
TaskCapture(c) ==
    /\ UNCHANGED <<rtcVars, paceVars, trackVars, button>>
    /\ task[c] = "idle"
    /\ ~cancel[c]
    /\ task' = [task EXCEPT ![c] = "capture"]
    /\ UNCHANGED <<active_sessions, browser_state, pc, sid, page, chan, event,
                   cmds, cancel, shot, closing, lastSent, lastBtnEvent,
                   destroyed, midCapture>>

\* line 180 returns or raises; line 184 compares with the session's last_screenshot
TaskCaptureDone(c, v) ==
    /\ UNCHANGED <<rtcVars, paceVars, trackVars, button>>
    /\ task[c] = "capture"
    /\ ~cancel[c]
    /\ LET frame == Screenshot(v, LoopQuality)
       IN  IF ~PageUsable(page[c]) \/ sid[c] \notin DOMAIN active_sessions
           THEN /\ task' = [task EXCEPT ![c] = "ended"]
                /\ shot' = shot
           ELSE IF frame # active_sessions[sid[c]].last_screenshot
           THEN /\ task' = [task EXCEPT ![c] = "send"]
                /\ shot' = [shot EXCEPT ![c] = frame]
           ELSE /\ task' = [task EXCEPT ![c] = "idle"]
                /\ shot' = shot
    /\ UNCHANGED <<active_sessions, browser_state, pc, sid, page, chan, event,
                   cmds, cancel, closing, lastSent, lastBtnEvent, destroyed,
                   midCapture>>

\* lines 185-189: send_json returns or raises, then last_screenshot is stored
TaskSendDone(c) ==
    /\ UNCHANGED <<rtcVars, paceVars, trackVars, button>>
    /\ task[c] = "send"
    /\ ~cancel[c]
    /\ IF chan[c] # "open"
       THEN /\ task' = [task EXCEPT ![c] = "ended"]
            /\ UNCHANGED <<active_sessions, lastSent>>
       ELSE /\ lastSent' = [lastSent EXCEPT ![c] = shot[c]]
            /\ IF sid[c] \in DOMAIN active_sessions
               THEN /\ active_sessions' =
                          [active_sessions EXCEPT ![sid[c]].last_screenshot = shot[c]]
                    /\ task' = [task EXCEPT ![c] = "idle"]
               ELSE /\ task' = [task EXCEPT ![c] = "ended"]
                    /\ active_sessions' = active_sessions
    /\ shot' = [shot EXCEPT ![c] = NoFrame]
    /\ UNCHANGED <<browser_state, pc, sid, page, chan, event, cmds, cancel,
                   closing, lastBtnEvent, destroyed, midCapture>>

\* the cancelled task is resumed with CancelledError at the await it is suspended in
TaskCancelled(c) ==
    /\ UNCHANGED <<rtcVars, paceVars, trackVars, button>>
    /\ cancel[c]
    /\ task[c] \in {"idle", "capture", "send"}
    /\ task' = [task EXCEPT ![c] = "ended"]
    /\ cancel' = [cancel EXCEPT ![c] = FALSE]
    /\ shot' = [shot EXCEPT ![c] = NoFrame]
    /\ UNCHANGED <<active_sessions, browser_state, pc, sid, page, chan, event,
                   cmds, closing, lastSent, lastBtnEvent, destroyed, midCapture>>

(***************************************************************************)
(* websocket_endpoint, the receive loop (lines 201-217)                    *)
(***************************************************************************)
\* receive_text returns message m; its handler runs up to its first await.  A mouse
\* event first stores the flag (lines 65-68); a message without "type" raises.
Receive(c, m) ==
    /\ UNCHANGED <<rtcVars, paceVars, trackVars, button>>
    /\ pc[c] = "receive"
    /\ chan[c] = "open"
    /\ LET calls == HandlerCalls(m)
           writes == m.type = "mouse" /\ m.eventType # "mousemove"
       IN  IF m.type = "malformed" \/ (writes /\ sid[c] \notin DOMAIN active_sessions)
           THEN /\ pc' = [pc EXCEPT ![c] = "finally"]
                /\ UNCHANGED <<active_sessions, event, cmds, lastBtnEvent>>
           ELSE /\ IF writes
                   THEN /\ active_sessions' =
                              [active_sessions EXCEPT ![sid[c]].mouse_down =
                                  MouseDownAfter(@, m.eventType)]
                        /\ lastBtnEvent' = [lastBtnEvent EXCEPT ![sid[c]] = m.eventType]
                   ELSE UNCHANGED <<active_sessions, lastBtnEvent>>
                /\ IF calls = <<>>
                   THEN UNCHANGED <<pc, event, cmds>>
                   ELSE /\ pc' = [pc EXCEPT ![c] = "dispatch"]
                        /\ event' = [event EXCEPT ![c] = m]
                        /\ cmds' = [cmds EXCEPT ![c] = calls]
    /\ UNCHANGED <<browser_state, sid, page, chan, task, cancel, shot, closing,
                   lastSent, destroyed, midCapture>>

\* receive_text raises WebSocketDisconnect
ReceiveDisconnect(c) ==
    /\ UNCHANGED <<rtcVars, paceVars, trackVars, button>>
    /\ pc[c] = "receive"
    /\ chan[c] = "closed"
    /\ pc' = [pc EXCEPT ![c] = "finally"]
    /\ UNCHANGED <<active_sessions, browser_state, sid, page, chan, event, cmds,
                   task, cancel, shot, closing, lastSent, lastBtnEvent,
                   destroyed, midCapture>>

\* page.mouse.click presses and releases the button, mouse.down presses it, mouse.up
\* releases it; no other call touches it
ButtonAfter(held, op) ==
    IF op = "mouse.down" THEN TRUE
    ELSE IF op \in {"mouse.click", "mouse.up"} THEN FALSE
    ELSE held

\* the browser call in flight returns or raises; the handler goes on to its next await
\* or returns to the receive loop.  Line 86 reads mouse_down after the first move.
CallDone(c) ==
    /\ UNCHANGED <<rtcVars, paceVars, trackVars>>
    /\ pc[c] = "dispatch"
    /\ LET rest == Tail(cmds[c])
           ok == CallSucceeds(page[c], Head(cmds[c]))
           raise == /\ pc' = [pc EXCEPT ![c] = "finally"]
                    /\ event' = [event EXCEPT ![c] = NoEvent]
                    /\ cmds' = [cmds EXCEPT ![c] = <<>>]
           return == /\ pc' = [pc EXCEPT ![c] = "receive"]
                     /\ event' = [event EXCEPT ![c] = NoEvent]
                     /\ cmds' = [cmds EXCEPT ![c] = <<>>]
       IN  /\ button' = IF ok THEN [button EXCEPT ![page[c]] =
                                       ButtonAfter(@, Head(cmds[c]).op)]
                         ELSE button
           /\ IF ~ok THEN raise
              ELSE IF rest = <<>> THEN return
              ELSE IF Head(rest).op = "if_mouse_down"
              THEN IF sid[c] \notin DOMAIN active_sessions THEN raise
                   ELSE IF active_sessions[sid[c]].mouse_down
                   THEN /\ cmds' = [cmds EXCEPT ![c] = <<MouseMove(event[c])>>]
                        /\ UNCHANGED <<pc, event>>
                   ELSE return
              ELSE /\ cmds' = [cmds EXCEPT ![c] = rest]
                   /\ UNCHANGED <<pc, event>>
    /\ UNCHANGED <<active_sessions, browser_state, sid, page, chan, task, cancel,
                   shot, closing, lastSent, lastBtnEvent, destroyed, midCapture>>

(***************************************************************************)
(* websocket_endpoint, the finally block, and close_browser_session        *)
(***************************************************************************)
\* (variant: an id that is not registered falls back to some browser)
SessionToCloseOrAny(reg, id) ==
    IF id \in DOMAIN reg THEN reg[id].browser ELSE CHOOSE b \in Browsers : TRUE

\* lines 49-50: the session close_browser_session goes on to release, NoBrowser when the
\* id is not registered (the function then returns at once)
SessionToClose(reg, id) ==
    IF id \in DOMAIN reg THEN reg[id].browser ELSE NoBrowser

\* lines 224-225 and 49-51: screenshot_task is unbound when the exception came before
\* line 198 (UnboundLocalError leaves the block); otherwise the task is cancelled and
\* close_browser_session runs up to `await session["context"].close()`
Finally(c) ==
    /\ UNCHANGED <<rtcVars, paceVars, trackVars, button>>
    /\ pc[c] = "finally"
    /\ IF task[c] = "none"
       THEN /\ pc' = [pc EXCEPT ![c] = "done"]
            /\ UNCHANGED <<cancel, closing>>
       ELSE /\ cancel' = [cancel EXCEPT ![c] = task[c] # "ended"]
            /\ IF SessionToClose(active_sessions, sid[c]) # NoBrowser
               THEN /\ closing' = [closing EXCEPT ![c] =
                                       SessionToClose(active_sessions, sid[c])]
                    /\ pc' = [pc EXCEPT ![c] = "close_context"]
               ELSE /\ pc' = [pc EXCEPT ![c] = "done"]
                    /\ closing' = closing
    /\ lastSent' = [lastSent EXCEPT ![c] = NoFrame]
    /\ UNCHANGED <<active_sessions, browser_state, sid, page, chan, event, cmds,
                   task, shot, lastBtnEvent, destroyed, midCapture>>

\* line 51 returns: the context of the local `session` is closed, and its page with it
CloseContext(c) ==
    /\ UNCHANGED <<rtcVars, paceVars, trackVars, button>>
    /\ pc[c] = "close_context"
    /\ browser_state' = [browser_state EXCEPT ![closing[c]] = "closed"]
    /\ pc' = [pc EXCEPT ![c] = "close_browser"]
    /\ UNCHANGED <<active_sessions, sid, page, chan, event, cmds, task, cancel,
                   shot, closing, lastSent, lastBtnEvent, destroyed, midCapture>>

\* lines 52-54: browser.close() and playwright.stop() return, then the entry is deleted
\* (KeyError when another close_browser_session deleted it meanwhile)
CloseBrowser(c) ==
    /\ UNCHANGED <<rtcVars, paceVars, trackVars, button>>
    /\ pc[c] = "close_browser"
    /\ active_sessions' = Unregister(active_sessions, sid[c])
    /\ destroyed' = [destroyed EXCEPT ![sid[c]] = TRUE]
    /\ pc' = [pc EXCEPT ![c] = "done"]
    /\ UNCHANGED <<browser_state, sid, page, chan, event, cmds, task, cancel,
                   shot, closing, lastSent, lastBtnEvent, midCapture>>

(***************************************************************************)
(* The environment: the client                                             *)
(***************************************************************************)
\* the client closes the control channel
ClientDisconnect(c) ==
    /\ UNCHANGED <<rtcVars, paceVars, trackVars, button>>
    /\ pc[c] \notin {"idle", "done"}
    /\ chan[c] = "open"
    /\ chan' = [chan EXCEPT ![c] = "closed"]
    /\ midCapture' = [midCapture EXCEPT ![c] = task[c] = "capture" /\ ~cancel[c]]
    /\ UNCHANGED <<active_sessions, browser_state, pc, sid, page, event, cmds,
                   task, cancel, shot, closing, lastSent, lastBtnEvent,
                   destroyed>>

(***************************************************************************)
(* src/request_listen.py: signaling of the real-time transport.            *)
(* Inbound texts, as json.loads sees them: not JSON at all, a JSON value   *)
(* that is no object, or an object (a function from its keys).             *)
(***************************************************************************)
\* signaling connections
RtcConns == {1, 2}

Unparsable == [t |-> "invalid"]
JNull == [t |-> "null"]
JNum == [t |-> "num"]
JList == [t |-> "list"]
JStr(x) == [t |-> "str", s |-> x]
JMap(f) == [t |-> "map", m |-> f]
NoMsg == [t |-> "none"]
NonMaps == {Unparsable, JNull, JNum, JList, JStr("x")}

MapsWith(keys, values) == {JMap(f) : f \in UNION {[K -> values] : K \in SUBSET keys}}

OfferTexts ==
    NonMaps \cup MapsWith({"sdp", "type"}, {JNull, JStr("x"), JStr("offer"), JStr("answer")})

CandidateField(k) ==
    IF k = "candidate" THEN JStr("c") ELSE IF k = "sdpMid" THEN JStr("0") ELSE JNum

CandidateValues ==
    {JNull, JStr("c"), JList}
        \cup {JMap([k \in K |-> CandidateField(k)]) :
                  K \in SUBSET {"candidate", "sdpMid", "sdpMLineIndex"}}

CandidateTexts ==
    NonMaps
        \cup {JMap([k \in {} |-> JNull]), JMap([k \in {"type"} |-> JStr("bye")])}
        \cup {JMap([k \in {"candidate"} |-> v]) : v \in CandidateValues}

NoDescription == [sdp |-> JNull, type |-> JNull]

\* (variant: the type field is not compared with "offer")
ValidateOfferIgnoringType(offer) ==
    IF offer = Unparsable \/ offer.t # "map" THEN FALSE
    ELSE IF "sdp" \notin DOMAIN offer.m \/ "type" \notin DOMAIN offer.m THEN FALSE
    ELSE offer.m["sdp"] # JNull

\* lines 119-126: json.loads, offer.get('type'), the two format checks; FALSE when
\* one of them raises
ValidateOffer(offer) ==
    IF offer = Unparsable \/ offer.t # "map" THEN FALSE
    ELSE IF "sdp" \notin DOMAIN offer.m \/ "type" \notin DOMAIN offer.m THEN FALSE
    ELSE IF offer.m["sdp"] = JNull \/ offer.m["type"] # JStr("offer") THEN FALSE
    ELSE TRUE

\* lines 160-174: what the candidate loop does with an inbound text: "break" when
\* json.loads or data.keys() raises, "ignore" when there is no candidate key,
\* "discard" when a filter rejects the candidate, "add" when it reaches line 177
CandidateAction(data) ==
    IF data = Unparsable \/ data.t # "map" THEN "break"
    ELSE IF "candidate" \notin DOMAIN data.m THEN "ignore"
    ELSE LET candidate_data == data.m["candidate"]
         IN  IF candidate_data = JNull THEN "discard"
             ELSE IF candidate_data.t # "map" THEN "discard"
             ELSE IF "candidate" \notin DOMAIN candidate_data.m
                     \/ "sdpMid" \notin DOMAIN candidate_data.m THEN "discard"
             ELSE "add"

RtcInit ==
    /\ pcs = {}
    /\ browser = 0
    /\ launched = 0
    /\ playwright_instance = 0
    /\ started = 0
    /\ rtc_page = 0
    /\ init_pc = [k \in RtcConns |-> "none"]
    /\ own_browser = [k \in RtcConns |-> 0]
    /\ rtc_pc = [k \in RtcConns |-> "idle"]
    /\ rtc_chan = [k \in RtcConns |-> "open"]
    /\ offer_sdp = [k \in RtcConns |-> NoDescription]
    /\ browser_track = [k \in RtcConns |-> "none"]
    /\ answers = [k \in RtcConns |-> 0]
    /\ candidates = [k \in RtcConns |-> {}]
    /\ firstMsg = [k \in RtcConns |-> NoMsg]
    /\ lastMsg = [k \in RtcConns |-> NoMsg]
    /\ local_description = [k \in RtcConns |-> "unset"]
    /\ closes = [k \in RtcConns |-> 0]
    /\ server = "running"

\* lines 109-114: accept returns, the peer connection is created and added to pcs
RtcConnect(k) ==
    /\ UNCHANGED <<pollVars, paceVars, trackVars, initVars>>
    /\ server = "running"
    /\ UNCHANGED <<local_description, closes, server>>
    /\ rtc_pc[k] = "idle"
    /\ pcs' = pcs \cup {k}
    /\ rtc_pc' = [rtc_pc EXCEPT ![k] = "offer"]
    /\ UNCHANGED <<browser, launched, rtc_chan, offer_sdp, browser_track, answers,
                   candidates, firstMsg, lastMsg>>

\* initialize_browser, line 94: the three globals are set
BrowserInitialized == browser # 0 /\ rtc_page # 0 /\ playwright_instance # 0

\* lines 118-135: the first text arrives and is validated; a valid offer goes on to
\* initialize_browser, which returns at once when the globals are set (and then the track
\* is created and setRemoteDescription awaited), else awaits async_playwright().start()
ReceiveOffer(k, text) ==
    /\ UNCHANGED <<pollVars, paceVars, trackVars>>
    /\ UNCHANGED <<local_description, closes, server>>
    /\ rtc_pc[k] = "offer"
    /\ rtc_chan[k] = "open"
    /\ firstMsg' = [firstMsg EXCEPT ![k] = text]
    /\ IF ValidateOffer(text)
       THEN /\ offer_sdp' = [offer_sdp EXCEPT ![k] =
                                [sdp |-> text.m["sdp"], type |-> text.m["type"]]]
            /\ IF BrowserInitialized
               THEN /\ browser_track' = [browser_track EXCEPT ![k] = "running"]
                    /\ rtc_pc' = [rtc_pc EXCEPT ![k] = "negotiate"]
                    /\ init_pc' = init_pc
               ELSE /\ rtc_pc' = [rtc_pc EXCEPT ![k] = "init_browser"]
                    /\ init_pc' = [init_pc EXCEPT ![k] = "start"]
                    /\ browser_track' = browser_track
       ELSE /\ rtc_pc' = [rtc_pc EXCEPT ![k] = "close_pc"]
            /\ UNCHANGED <<offer_sdp, browser_track, init_pc>>
    /\ UNCHANGED <<pcs, browser, launched, rtc_chan, answers, candidates, lastMsg,
                   playwright_instance, started, rtc_page, own_browser>>

\* receive_text raises WebSocketDisconnect, before the offer or in the candidate loop
RtcReceiveDisconnect(k) ==
    /\ UNCHANGED <<pollVars, paceVars, trackVars, initVars>>
    /\ UNCHANGED <<local_description, closes, server>>
    /\ rtc_pc[k] \in {"offer", "candidates"}
    /\ rtc_chan[k] = "closed"
    /\ rtc_pc' = [rtc_pc EXCEPT ![k] = "close_pc"]
    /\ UNCHANGED <<pcs, browser, launched, rtc_chan, offer_sdp, browser_track, answers,
                   candidates, firstMsg, lastMsg>>

\* initialize_browser, line 96: async_playwright().start() returns and the global is
\* set, then chromium.launch is awaited; or it raises
StartPlaywright(k, ok) ==
    /\ UNCHANGED <<pollVars, paceVars, trackVars>>
    /\ UNCHANGED <<local_description, closes, server>>
    /\ rtc_pc[k] = "init_browser"
    /\ init_pc[k] = "start"
    /\ IF ok
       THEN /\ started' = started + 1
            /\ playwright_instance' = started + 1
            /\ init_pc' = [init_pc EXCEPT ![k] = "launch"]
            /\ rtc_pc' = rtc_pc
       ELSE /\ rtc_pc' = [rtc_pc EXCEPT ![k] = "close_pc"]
            /\ init_pc' = [init_pc EXCEPT ![k] = "none"]
            /\ UNCHANGED <<started, playwright_instance>>
    /\ UNCHANGED <<pcs, browser, launched, rtc_chan, offer_sdp, browser_track, answers,
                   candidates, firstMsg, lastMsg, rtc_page, own_browser>>

\* initialize_browser, line 97: chromium.launch returns a new browser and the global is
\* set, then new_page is awaited on it; or it raises
LaunchBrowser(k, ok) ==
    /\ UNCHANGED <<pollVars, paceVars, trackVars>>
    /\ UNCHANGED <<local_description, closes, server>>
    /\ rtc_pc[k] = "init_browser"
    /\ init_pc[k] = "launch"
    /\ IF ok
       THEN /\ launched' = launched + 1
            /\ browser' = launched + 1
            /\ own_browser' = [own_browser EXCEPT ![k] = launched + 1]
            /\ init_pc' = [init_pc EXCEPT ![k] = "new_page"]
            /\ rtc_pc' = rtc_pc
       ELSE /\ rtc_pc' = [rtc_pc EXCEPT ![k] = "close_pc"]
            /\ init_pc' = [init_pc EXCEPT ![k] = "none"]
            /\ UNCHANGED <<launched, browser, own_browser>>
    /\ UNCHANGED <<pcs, rtc_chan, offer_sdp, browser_track, answers, candidates, firstMsg,
                   lastMsg, playwright_instance, started, rtc_page>>

\* initialize_browser, line 98: new_page returns the page of the browser it was called
\* on and the global is set, then page.goto is awaited; or it raises
NewPage(k, ok) ==
    /\ UNCHANGED <<pollVars, paceVars, trackVars>>
    /\ UNCHANGED <<local_description, closes, server>>
    /\ rtc_pc[k] = "init_browser"
    /\ init_pc[k] = "new_page"
    /\ IF ok
       THEN /\ rtc_page' = own_browser[k]
            /\ init_pc' = [init_pc EXCEPT ![k] = "goto"]
            /\ rtc_pc' = rtc_pc
       ELSE /\ rtc_pc' = [rtc_pc EXCEPT ![k] = "close_pc"]
            /\ init_pc' = [init_pc EXCEPT ![k] = "none"]
            /\ rtc_page' = rtc_page
    /\ UNCHANGED <<pcs, browser, launched, rtc_chan, offer_sdp, browser_track, answers,
                   candidates, firstMsg, lastMsg, playwright_instance, started,
                   own_browser>>

\* initialize_browser, lines 99-103, and lines 134-138: page.goto returns (ok),
\* initialize_browser returns the globals, the track is created and setRemoteDescription
\* awaited; or page.goto raises
InitializeBrowser(k, ok) ==
    /\ UNCHANGED <<pollVars, paceVars, trackVars>>
    /\ UNCHANGED <<local_description, closes, server>>
    /\ rtc_pc[k] = "init_browser"
    /\ init_pc[k] = "goto"
    /\ init_pc' = [init_pc EXCEPT ![k] = "none"]
    /\ IF ok
       THEN /\ browser_track' = [browser_track EXCEPT ![k] = "running"]
            /\ rtc_pc' = [rtc_pc EXCEPT ![k] = "negotiate"]
       ELSE /\ rtc_pc' = [rtc_pc EXCEPT ![k] = "close_pc"]
            /\ browser_track' = browser_track
    /\ UNCHANGED <<pcs, browser, launched, rtc_chan, offer_sdp, answers, candidates,
                   firstMsg, lastMsg, playwright_instance, started, rtc_page,
                   own_browser>>

\* (variant: only a missing local description is refused)
AnswerReadyUnlessMissing(result) == result \notin {"no_description", "raise"}

\* lines 143-146: the two checks of pc.localDescription after the negotiation returned
AnswerReady(result) == result = "described"

\* lines 138-153: setRemoteDescription, createAnswer and setLocalDescription return or
\* raise; the local description is checked and the answer handed to send_text
Negotiate(k, result) ==
    /\ UNCHANGED <<pollVars, paceVars, trackVars, initVars>>
    /\ local_description' = [local_description EXCEPT ![k] = result]
    /\ UNCHANGED <<closes, server>>
    /\ rtc_pc[k] = "negotiate"
    /\ rtc_pc' = [rtc_pc EXCEPT ![k] = IF AnswerReady(result) THEN "send_answer"
                                      ELSE "close_pc"]
    /\ UNCHANGED <<pcs, browser, launched, rtc_chan, offer_sdp, browser_track, answers,
                   candidates, firstMsg, lastMsg>>

\* line 153: send_text returns or raises
SendAnswer(k) ==
    /\ UNCHANGED <<pollVars, paceVars, trackVars, initVars>>
    /\ UNCHANGED <<local_description, closes, server>>
    /\ rtc_pc[k] = "send_answer"
    /\ IF rtc_chan[k] = "open"
       THEN /\ answers' = [answers EXCEPT ![k] = @ + 1]
            /\ rtc_pc' = [rtc_pc EXCEPT ![k] = "candidates"]
       ELSE /\ rtc_pc' = [rtc_pc EXCEPT ![k] = "close_pc"]
            /\ answers' = answers
    /\ UNCHANGED <<pcs, browser, launched, rtc_chan, offer_sdp, browser_track,
                   candidates, firstMsg, lastMsg>>

\* (variant: candidate messages are also taken while the answer is still to be sent)
ReceiveCandidateBeforeAnswer(k, text, constructed) ==
    /\ UNCHANGED <<pollVars, paceVars, trackVars, initVars>>
    /\ UNCHANGED <<local_description, closes, server>>
    /\ rtc_pc[k] \in {"send_answer", "candidates"}
    /\ rtc_chan[k] = "open"
    /\ lastMsg' = [lastMsg EXCEPT ![k] = text]
    /\ LET action == CandidateAction(text)
       IN  rtc_pc' = [rtc_pc EXCEPT ![k] =
               IF action = "break" THEN "close_pc"
               ELSE IF action = "add" /\ constructed THEN "add_candidate"
               ELSE "candidates"]
    /\ UNCHANGED <<pcs, browser, launched, rtc_chan, offer_sdp, browser_track, answers,
                   candidates, firstMsg>>

\* lines 159-182 and 185-187: one text of the candidate loop is taken and filtered.
\* RTCIceCandidate(...) is the transport's: it returns (constructed) and
\* pc.addIceCandidate is awaited, or it raises and the handler of line 185 continues the
\* loop.
ReceiveCandidate(k, text, constructed) ==
    /\ UNCHANGED <<pollVars, paceVars, trackVars, initVars>>
    /\ UNCHANGED <<local_description, closes, server>>
    /\ rtc_pc[k] = "candidates"
    /\ rtc_chan[k] = "open"
    /\ lastMsg' = [lastMsg EXCEPT ![k] = text]
    /\ LET action == CandidateAction(text)
       IN  rtc_pc' = [rtc_pc EXCEPT ![k] =
               IF action = "break" THEN "close_pc"
               ELSE IF action = "add" /\ constructed THEN "add_candidate"
               ELSE "candidates"]
    /\ UNCHANGED <<pcs, browser, launched, rtc_chan, offer_sdp, browser_track, answers,
                   candidates, firstMsg>>

\* lines 183-187: pc.addIceCandidate returns (ok) and the peer connection holds the
\* candidate, or raises; either way the loop goes back to receive_text
AddIceCandidate(k, ok) ==
    /\ UNCHANGED <<pollVars, paceVars, trackVars, initVars>>
    /\ UNCHANGED <<local_description, closes, server>>
    /\ rtc_pc[k] = "add_candidate"
    /\ rtc_pc' = [rtc_pc EXCEPT ![k] = "candidates"]
    /\ candidates' = [candidates EXCEPT ![k] =
           IF ok THEN @ \cup {lastMsg[k].m["candidate"]} ELSE @]
    /\ UNCHANGED <<pcs, browser, launched, rtc_chan, offer_sdp, browser_track, answers,
                   firstMsg, lastMsg>>

\* lines 200-203: pc.close() returns, the connection leaves pcs, the track is stopped
ClosePeerConnection(k) ==
    /\ UNCHANGED <<pollVars, paceVars, trackVars, initVars>>
    /\ closes' = [closes EXCEPT ![k] = @ + 1]
    /\ UNCHANGED <<local_description, server>>
    /\ rtc_pc[k] = "close_pc"
    /\ pcs' = pcs \ {k}
    /\ rtc_pc' = [rtc_pc EXCEPT ![k] = IF browser_track[k] = "none" THEN "closed"
                                      ELSE "stop_track"]
    /\ UNCHANGED <<browser, launched, rtc_chan, offer_sdp, browser_track, answers,
                   candidates, firstMsg, lastMsg>>

\* BrowserTrack.stop, lines 81-88: the capture task is cancelled and awaited
StopTrack(k) ==
    /\ UNCHANGED <<pollVars, paceVars, trackVars, initVars>>
    /\ UNCHANGED <<local_description, closes, server>>
    /\ rtc_pc[k] = "stop_track"
    /\ browser_track' = [browser_track EXCEPT ![k] = "stopped"]
    /\ rtc_pc' = [rtc_pc EXCEPT ![k] = "closed"]
    /\ UNCHANGED <<pcs, browser, launched, rtc_chan, offer_sdp, answers, candidates,
                   firstMsg, lastMsg>>

\* the client closes the signaling channel
RtcClientDisconnect(k) ==
    /\ UNCHANGED <<pollVars, paceVars, trackVars, initVars>>
    /\ UNCHANGED <<local_description, closes, server>>
    /\ rtc_pc[k] \notin {"idle", "closed"}
    /\ rtc_chan[k] = "open"
    /\ rtc_chan' = [rtc_chan EXCEPT ![k] = "closed"]
    /\ UNCHANGED <<pcs, browser, launched, rtc_pc, offer_sdp, browser_track, answers,
                   candidates, firstMsg, lastMsg>>

NegotiationResults == {"described", "no_description", "no_sdp", "raise"}

\* lifespan_manager, lines 26-27: at shutdown pc.close() is called on every peer
\* connection still in pcs
ShutdownClosePeers ==
    /\ UNCHANGED <<pollVars, paceVars, trackVars, initVars>>
    /\ server = "running"
    /\ server' = "closing"
    /\ closes' = [k \in RtcConns |-> IF k \in pcs THEN closes[k] + 1 ELSE closes[k]]
    /\ UNCHANGED <<pcs, browser, launched, rtc_pc, rtc_chan, offer_sdp, browser_track,
                   answers, candidates, firstMsg, lastMsg, local_description>>

\* lifespan_manager, lines 27-33: the gather returns, pcs is cleared, the browser and
\* playwright are closed; no track is stopped here
ShutdownClear ==
    /\ UNCHANGED <<pollVars, paceVars, trackVars, initVars>>
    /\ server = "closing"
    /\ server' = "stopped"
    /\ pcs' = {}
    /\ UNCHANGED <<browser, launched, rtc_pc, rtc_chan, offer_sdp, browser_track,
                   answers, candidates, firstMsg, lastMsg, local_description, closes>>

\* the steps of signaling connections K with first texts O and later texts T
RtcStepOn(K, O, T) ==
    \/ \E k \in K : RtcConnect(k)
    \/ \E k \in K, text \in O : ReceiveOffer(k, text)
    \/ \E k \in K : RtcReceiveDisconnect(k)
    \/ \E k \in K, ok \in BOOLEAN : StartPlaywright(k, ok)
    \/ \E k \in K, ok \in BOOLEAN : LaunchBrowser(k, ok)
    \/ \E k \in K, ok \in BOOLEAN : NewPage(k, ok)
    \/ \E k \in K, ok \in BOOLEAN : InitializeBrowser(k, ok)
    \/ \E k \in K, result \in NegotiationResults : Negotiate(k, result)
    \/ \E k \in K : SendAnswer(k)
    \/ \E k \in K, text \in T, constructed \in BOOLEAN :
           ReceiveCandidate(k, text, constructed)
    \/ \E k \in K, ok \in BOOLEAN : AddIceCandidate(k, ok)
    \/ \E k \in K : ClosePeerConnection(k)
    \/ \E k \in K : StopTrack(k)
    \/ \E k \in K : RtcClientDisconnect(k)
    \/ ShutdownClosePeers
    \/ ShutdownClear

RtcStep(K) == RtcStepOn(K, OfferTexts, CandidateTexts)

(***************************************************************************)
(* Frame pacing of send_screenshots (src/app.py) and of                     *)
(* PlaywrightCapture.run_capture_loop (src/CDP-cv2.py).  Time is counted in *)
(* ticks of a third of a millisecond, the unit in which 1.0 / TARGET_FPS    *)
(* seconds is a whole number.  app_since and cdp_since are the time since   *)
(* the loop last started a capture (-1: none yet), app_gap and cdp_gap the  *)
(* time between its last two capture starts; all are cut off at PaceCap.    *)
(***************************************************************************)
MaxCaptureMs == 2
MaxLateMs == 1
MaxProcessMs == 40

TicksPerMs == 3
Ms(n) == n * TicksPerMs

\* app.py:191 "about 15 fps", app.py:192 asyncio.sleep(0.001)
AppTargetFps == 15
AppSleepMs == 1
AppTargetInterval == Ms(1000) \div AppTargetFps
\* CDP-cv2.py:12 and :22: 1.0 / TARGET_FPS seconds, 100 ticks
TARGET_FPS == 30
frame_interval == Ms(1000) \div TARGET_FPS

PaceCap == AppTargetInterval
Later(since, d) ==
    IF since < 0 THEN since ELSE IF since + d > PaceCap THEN PaceCap ELSE since + d

PaceInit ==
    /\ app_pc = "idle"
    /\ app_since = -1
    /\ app_gap = -1
    /\ cdp_pc = "top"
    /\ cdp_running = TRUE
    /\ cdp_since = -1
    /\ cdp_sleep = 0
    /\ cdp_gap = -1
    /\ app_raised = FALSE
    /\ cdp_raised = FALSE

\* app.py:180 is issued: a capture starts
AppCaptureStart ==
    /\ UNCHANGED <<pollVars, rtcVars, trackVars>>
    /\ app_pc = "idle"
    /\ app_pc' = "capture"
    /\ app_gap' = app_since
    /\ app_since' = 0
    /\ UNCHANGED <<cdp_pc, cdp_running, cdp_since, cdp_sleep, cdp_gap>>
    /\ UNCHANGED <<app_raised, cdp_raised>>

\* how one pass of a frame loop ends: the capture and what follows it returned, the
\* capture raised, or the capture returned and a later statement of the try block raised
PassResults == {"ok", "capture_raised", "raised_later"}

\* app.py:180-195: after d ticks the capture, comparison and send have returned ("ok");
\* or page.screenshot raised ("capture_raised"), or send_json or the registry access of
\* lines 184-189 raised ("raised_later"), and the handler of line 193 breaks the loop
AppCaptureDone(d, result) ==
    /\ UNCHANGED <<pollVars, rtcVars, trackVars>>
    /\ app_pc = "capture"
    /\ app_pc' = IF result = "ok" THEN "sleep" ELSE "ended"
    /\ app_since' = Later(app_since, d)
    /\ UNCHANGED <<app_gap, cdp_pc, cdp_running, cdp_since, cdp_sleep, cdp_gap>>
    /\ UNCHANGED cdp_raised
    /\ app_raised' = (app_raised \/ result = "capture_raised")

\* app.py:192: asyncio.sleep(0.001) returns, late ticks after its delay
AppSleepDone(late) ==
    /\ UNCHANGED <<pollVars, rtcVars, trackVars>>
    /\ app_pc = "sleep"
    /\ app_pc' = "idle"
    /\ app_since' = Later(app_since, Ms(AppSleepMs) + late)
    /\ UNCHANGED <<app_gap, cdp_pc, cdp_running, cdp_since, cdp_sleep, cdp_gap>>
    /\ UNCHANGED <<app_raised, cdp_raised>>

\* app.py:224: screenshot_task.cancel() of the finally block reaches the task before its
\* first run, or at the await it is suspended in or about to resume from
\* (page.screenshot, asyncio.sleep), and the task ends there
AppCancel ==
    /\ UNCHANGED <<pollVars, rtcVars, trackVars>>
    /\ app_pc \in {"idle", "capture", "sleep"}
    /\ app_pc' = "ended"
    /\ UNCHANGED <<app_since, app_gap, cdp_pc, cdp_running, cdp_since, cdp_sleep, cdp_gap>>
    /\ UNCHANGED <<app_raised, cdp_raised>>

\* CDP-cv2.py:88-96: self.running holds and, elapsed ticks after last_frame_time, the
\* loop is at its top; it sleeps frame_interval - elapsed when that is positive, else
\* it captures at once
CdpLoopTop(elapsed) ==
    /\ UNCHANGED <<pollVars, rtcVars, trackVars>>
    /\ cdp_pc = "top"
    /\ cdp_running
    /\ IF elapsed < frame_interval
       THEN /\ cdp_pc' = "sleep"
            /\ cdp_sleep' = frame_interval - elapsed
            /\ cdp_since' = Later(cdp_since, elapsed)
            /\ cdp_gap' = cdp_gap
       ELSE /\ cdp_pc' = "capture"
            /\ cdp_sleep' = 0
            /\ cdp_gap' = Later(cdp_since, elapsed)
            /\ cdp_since' = 0
    /\ UNCHANGED <<app_pc, app_since, app_gap, cdp_running>>
    /\ UNCHANGED <<app_raised, cdp_raised>>

\* CDP-cv2.py:88: self.running is false at the test of the while and the loop ends
CdpLoopEnd ==
    /\ UNCHANGED <<pollVars, rtcVars, trackVars>>
    /\ cdp_pc = "top"
    /\ ~cdp_running
    /\ cdp_pc' = "ended"
    /\ UNCHANGED <<app_pc, app_since, app_gap, cdp_running, cdp_since, cdp_sleep, cdp_gap>>
    /\ UNCHANGED <<app_raised, cdp_raised>>

\* CDP-cv2.py:93 and 96: the sleep returns, late ticks after its delay, and a capture
\* starts
CdpSleepDone(late) ==
    /\ UNCHANGED <<pollVars, rtcVars, trackVars>>
    /\ cdp_pc = "sleep"
    /\ cdp_pc' = "capture"
    /\ cdp_gap' = Later(cdp_since, cdp_sleep + late)
    /\ cdp_since' = 0
    /\ cdp_sleep' = 0
    /\ UNCHANGED <<app_pc, app_since, app_gap, cdp_running>>
    /\ UNCHANGED <<app_raised, cdp_raised>>

\* CDP-cv2.py:96-104: after d ticks capture_frame has returned (last_frame_time is set)
\* and process_frame saw the key q (quit, lines 143-144: stop()) or not ("ok"); or
\* capture_frame raised ("capture_raised"), or update_fps_counter or process_frame raised
\* ("raised_later"), and the handler of line 102 breaks the loop
CdpCaptureDone(d, result, quit) ==
    /\ UNCHANGED <<pollVars, rtcVars, trackVars>>
    /\ cdp_pc = "capture"
    /\ cdp_pc' = IF result = "ok" THEN "top" ELSE "ended"
    /\ cdp_running' = IF result = "ok" /\ quit THEN FALSE ELSE cdp_running
    /\ cdp_since' = Later(cdp_since, d)
    /\ UNCHANGED <<cdp_sleep, cdp_gap, app_pc, app_since, app_gap>>
    /\ UNCHANGED app_raised
    /\ cdp_raised' = (cdp_raised \/ result = "capture_raised")

\* CDP-cv2.py:93 and 96: the task running main() is cancelled (Ctrl+C) while the loop is
\* suspended in its sleep, outside the try, or in its capture, where except Exception
\* does not catch CancelledError: run_capture_loop is left there
CdpInterrupt ==
    /\ UNCHANGED <<pollVars, rtcVars, trackVars>>
    /\ cdp_pc \in {"sleep", "capture"}
    /\ cdp_pc' = "ended"
    /\ UNCHANGED <<app_pc, app_since, app_gap, cdp_running, cdp_since, cdp_sleep, cdp_gap>>
    /\ UNCHANGED <<app_raised, cdp_raised>>

\* CDP-cv2.py:173 and 146-152: run_capture_loop was left and the finally block of main()
\* awaits close(), whose stop() sets self.running = False
CdpStop ==
    /\ UNCHANGED <<pollVars, rtcVars, trackVars>>
    /\ cdp_pc = "ended"
    /\ cdp_running
    /\ cdp_running' = FALSE
    /\ UNCHANGED <<app_pc, app_since, app_gap, cdp_pc, cdp_since, cdp_sleep, cdp_gap>>
    /\ UNCHANGED <<app_raised, cdp_raised>>

(***************************************************************************)
(* BrowserTrack (src/request_listen.py:46-88): capture_frames keeps          *)
(* self.frame up to date, recv hands a copy of it to the transport.         *)
(***************************************************************************)
MaxRecv == 3

\* line 64: cv2.resize(frame, (1280, 720))
OutWidth == 1280
OutHeight == 720

\* what page.screenshot may return: the rendered content at the size of the viewport
Viewports == {<<OutWidth, OutHeight>>, <<800, 600>>}
TrackShots == [content : Contents, width : {v[1] : v \in Viewports},
               height : {v[2] : v \in Viewports}]

\* self.frame = None (line 52)
NoTrackFrame == [content |-> -1, marker |-> FALSE, width |-> 0, height |-> 0]
\* lines 60-64: the screenshot decoded, converted to RGB and resized
Resized(png) ==
    [content |-> png.content, marker |-> FALSE, width |-> OutWidth, height |-> OutHeight]
\* lines 67-69: a black frame with the text "Capture Error"
ErrorFrame == [content |-> -1, marker |-> TRUE, width |-> OutWidth, height |-> OutHeight]
\* line 74: np.zeros((720, 1280, 3)), a black frame
ZeroFrame == [content |-> -1, marker |-> FALSE, width |-> OutWidth, height |-> OutHeight]

\* line 74: what recv returns for self.frame
RecvFrame(frame) == IF frame # NoTrackFrame THEN frame ELSE ZeroFrame

TrackInit ==
    /\ track_pc = "off"
    /\ next_timestamp = FALSE
    /\ track_frame = NoTrackFrame
    /\ last_capture = "none"
    /\ recv_pc = "none"
    /\ recv_frame = NoTrackFrame
    /\ recv_count = 0
    /\ recv_calls = 0

TrackTypeOK ==
    /\ track_pc \in {"off", "created", "capture", "sleep", "stopped"}
    /\ next_timestamp \in BOOLEAN
    /\ track_frame \in {NoTrackFrame, ErrorFrame} \cup {Resized(png) : png \in TrackShots}
    /\ last_capture \in {"none", "ok", "failed"}
    /\ recv_pc \in {"none", "next_timestamp"}
    /\ recv_frame \in {NoTrackFrame, ZeroFrame, ErrorFrame}
                         \cup {Resized(png) : png \in TrackShots}
    /\ recv_count \in 0..MaxRecv
    /\ recv_calls \in 0..MaxRecv

\* lines 46-54: the track is constructed and its capture task created.  The class derives
\* from aiortc's MediaStreamTrack (line 46), which has no next_timestamp (aiortc defines
\* it in VideoStreamTrack); inherited tells whether the base class in use provides it.
TrackCreate(inherited) ==
    /\ UNCHANGED <<pollVars, rtcVars, paceVars>>
    /\ track_pc = "off"
    /\ track_pc' = "created"
    /\ next_timestamp' = inherited
    /\ UNCHANGED <<track_frame, last_capture, recv_pc, recv_frame, recv_count,
                   recv_calls>>

\* lines 56-59: the capture task runs for the first time, up to its first
\* page.screenshot
TrackStart ==
    /\ UNCHANGED <<pollVars, rtcVars, paceVars>>
    /\ track_pc = "created"
    /\ track_pc' = "capture"
    /\ UNCHANGED <<next_timestamp, track_frame, last_capture, recv_pc, recv_frame,
                   recv_count, recv_calls>>

\* lines 59-70: page.screenshot returns png (ok) or raises; self.frame is set and the
\* task sleeps
TrackCaptureDone(png, ok) ==
    /\ UNCHANGED <<pollVars, rtcVars, paceVars>>
    /\ track_pc = "capture"
    /\ track_frame' = IF ok THEN Resized(png) ELSE ErrorFrame
    /\ last_capture' = IF ok THEN "ok" ELSE "failed"
    /\ track_pc' = "sleep"
    /\ UNCHANGED <<next_timestamp, recv_pc, recv_frame, recv_count, recv_calls>>

\* line 70 returns and line 59 is issued again
TrackSleepDone ==
    /\ UNCHANGED <<pollVars, rtcVars, paceVars>>
    /\ track_pc = "sleep"
    /\ track_pc' = "capture"
    /\ UNCHANGED <<next_timestamp, track_frame, last_capture, recv_pc, recv_frame,
                   recv_count, recv_calls>>

\* lines 72-73: recv is called; self.next_timestamp() raises AttributeError when the
\* track has no such method, else recv awaits it
TrackRecv ==
    /\ UNCHANGED <<pollVars, rtcVars, paceVars>>
    /\ track_pc # "off"
    /\ recv_pc = "none"
    /\ recv_calls < MaxRecv
    /\ recv_calls' = recv_calls + 1
    /\ recv_pc' = IF next_timestamp THEN "next_timestamp" ELSE "none"
    /\ UNCHANGED <<track_pc, next_timestamp, track_frame, last_capture, recv_frame,
                   recv_count>>

\* lines 73-79: next_timestamp returns; recv reads self.frame and returns its frame
TrackRecvReturn ==
    /\ UNCHANGED <<pollVars, rtcVars, paceVars>>
    /\ recv_pc = "next_timestamp"
    /\ recv_pc' = "none"
    /\ recv_count' = recv_count + 1
    /\ recv_frame' = RecvFrame(track_frame)
    /\ UNCHANGED <<track_pc, next_timestamp, track_frame, last_capture, recv_calls>>

\* lines 81-88: stop() cancels the capture task before its first run or at the await it
\* is suspended in
TrackStop ==
    /\ UNCHANGED <<pollVars, rtcVars, paceVars>>
    /\ track_pc \in {"created", "capture", "sleep"}
    /\ track_pc' = "stopped"
    /\ UNCHANGED <<next_timestamp, track_frame, last_capture, recv_pc, recv_frame,
                   recv_count, recv_calls>>

Init == PollInit /\ RtcInit /\ PaceInit /\ TrackInit

\* the steps of connections C for session ids I, whose clients send messages of M and
\* whose pages render contents of V
Step(C, I, M, V) ==
    \/ \E c \in C, id \in I : Connect(c, id)
    \/ \E c \in C : StartBrowserSession(c)
    \/ \E c \in C, v \in V : InitialCapture(c, v)
    \/ \E c \in C : InitialSend(c)
    \/ \E c \in C : TaskCapture(c)
    \/ \E c \in C, v \in V : TaskCaptureDone(c, v)
    \/ \E c \in C : TaskSendDone(c)
    \/ \E c \in C : TaskCancelled(c)
    \/ \E c \in C, m \in M : Receive(c, m)
    \/ \E c \in C : ReceiveDisconnect(c)
    \/ \E c \in C : CallDone(c)
    \/ \E c \in C : Finally(c)
    \/ \E c \in C : CloseContext(c)
    \/ \E c \in C : CloseBrowser(c)
    \/ \E c \in C : ClientDisconnect(c)

MouseMessages == {m \in Messages : m.type = "mouse"}

\* Spec: both connections, both session ids, changing pages; the clients press the
\* mouse button
Next == Step(Conns, SessionIds, {m \in MouseMessages : m.eventType = "mousedown"}, Contents)
Spec == Init /\ [][Next]_vars

\* SpecSignal: one signaling connection, every inbound text
NextSignal == RtcStep({1})
SpecSignal == Init /\ [][NextSignal]_vars

\* SpecOffers: two signaling connections, each sending a valid offer or a list, then
\* lists or well-formed candidates
ValidOffer == JMap([f \in {"sdp", "type"} |-> IF f = "sdp" THEN JStr("x") ELSE JStr("offer")])
GoodCandidate ==
    JMap([f \in {"candidate"} |->
             JMap([k \in {"candidate", "sdpMid"} |-> CandidateField(k)])])
NextOffers == RtcStepOn(RtcConns, {ValidOffer, JList}, {GoodCandidate, JList})
SpecOffers == Init /\ [][NextOffers]_vars

\* SpecTrack: one BrowserTrack, its capture task and the transport calling recv
NextTrack ==
    \/ \E inherited \in BOOLEAN : TrackCreate(inherited)
    \/ \E png \in TrackShots, ok \in BOOLEAN : TrackCaptureDone(png, ok)
    \/ TrackStart
    \/ TrackSleepDone
    \/ TrackRecv
    \/ TrackRecvReturn
    \/ TrackStop
SpecTrack == Init /\ [][NextTrack]_vars

\* SpecPacing: the two capture loops against the clock
CaptureTimes == {Ms(n) : n \in 0..MaxCaptureMs}
LateTimes == {Ms(n) : n \in 0..MaxLateMs}
\* the processing times: none, 1 ms, the whole milliseconds next to frame_interval, and
\* the longest
ProcessTimes ==
    {0, Ms(1), Ms(frame_interval \div TicksPerMs), Ms(frame_interval \div TicksPerMs + 1),
     Ms(MaxProcessMs)}
NextPacing ==
    \/ AppCaptureStart
    \/ \E d \in CaptureTimes, result \in PassResults : AppCaptureDone(d, result)
    \/ \E late \in LateTimes : AppSleepDone(late)
    \/ AppCancel
    \/ \E elapsed \in ProcessTimes : CdpLoopTop(elapsed)
    \/ CdpLoopEnd
    \/ \E late \in LateTimes : CdpSleepDone(late)
    \/ \E d \in CaptureTimes, result \in PassResults, quit \in BOOLEAN :
           CdpCaptureDone(d, result, quit)
    \/ CdpInterrupt
    \/ CdpStop
SpecPacing == Init /\ [][NextPacing]_vars

\* SpecMouse: both connections on session id "s1", every pointer event, a still page
NextMouse == Step(Conns, {"s1"}, MouseMessages, {0})
SpecMouse == Init /\ [][NextMouse]_vars

\* SpecInput: one connection, every message of the control channel
NextInput == Step({1}, {"s1"}, Messages, Contents)
SpecInput == Init /\ [][NextInput]_vars

(***************************************************************************)
(* Properties of the polling transport                                     *)
(***************************************************************************)
\* C1: after every pointer event handled for a session, its mouse_down flag is true
\* iff the last event among mousedown, mouseup and dblclick was a mousedown
\* (mousemove leaves lastBtnEvent, hence the flag, alone; dblclick leaves it false).
C1_MouseDownIffLastButtonEventIsDown ==
    \A id \in DOMAIN active_sessions :
        active_sessions[id].mouse_down <=> (lastBtnEvent[id] = "mousedown")

\* a mousemove being handled while the button is held since an earlier mousedown
C1_Witness ==
    \E c \in Conns :
        /\ pc[c] = "dispatch"
        /\ event[c].type = "mouse"
        /\ event[c].eventType = "mousemove"
        /\ sid[c] \in DOMAIN active_sessions
        /\ active_sessions[sid[c]].mouse_down
        /\ lastBtnEvent[sid[c]] = "mousedown"

\* C2: every screenshot message the frame task sends on a connection differs from the
\* last screenshot message sent on that connection.
C2_NoConsecutiveIdenticalFrames ==
    [][\A c \in Conns :
          (task[c] = "send" /\ task'[c] = "idle") => shot[c] # lastSent[c]]_vars

\* C3: whenever the initial send of a connection whose client is still there ends, the
\* first frame captured is what was sent, whatever last_screenshot the session holds.
C3_FirstFrameForwarded ==
    [][\A c \in Conns :
          (pc[c] = "initial_send" /\ pc'[c] # "initial_send" /\ chan[c] = "open")
              => /\ shot[c] # NoFrame
                 /\ lastSent'[c] = shot[c]
                 /\ pc'[c] = "receive"]_vars

\* a connection attached to a session launched by the other one has been sent its first
\* frame, of the content the session already holds as last_screenshot
C3_Witness ==
    \E c \in Conns :
        /\ pc[c] = "receive"
        /\ page[c] # c
        /\ lastSent[c].quality = InitialQuality
        /\ sid[c] \in DOMAIN active_sessions
        /\ active_sessions[sid[c]].last_screenshot # NoFrame
        /\ active_sessions[sid[c]].last_screenshot.content = lastSent[c].content

\* C8: the url handed to page.goto is the event's url when it starts with http:// or
\* https://, and "https://" followed by it otherwise.
C8_NavigationPrependsScheme ==
    \A c \in Conns :
        (pc[c] = "dispatch" /\ event[c].type = "navigation")
            => Head(cmds[c]) =
                   [op |-> "goto",
                    url |-> IF HasScheme(event[c].url) THEN event[c].url
                            ELSE HttpsPrefix \o event[c].url]

\* C9: once an id is deleted the registry holds no entry for it, and whenever an entry
\* for an id appears or is replaced it is a session on a browser launched for it in
\* that step, with mouse_down false and no last_screenshot.
C9_DestroyedThenBrandNew ==
    [][\A id \in SessionIds :
          /\ destroyed'[id] => id \notin DOMAIN active_sessions'
          /\ (/\ id \in DOMAIN active_sessions'
              /\ (id \in DOMAIN active_sessions
                      => active_sessions'[id].browser # active_sessions[id].browser))
                 => /\ browser_state[active_sessions'[id].browser] = "unused"
                    /\ browser_state'[active_sessions'[id].browser] = "open"
                    /\ ~active_sessions'[id].mouse_down
                    /\ active_sessions'[id].last_screenshot = NoFrame]_vars

\* a connection whose session was destroyed, and the other connection holding the
\* brand-new session registered afterwards for the same id
C9_Witness ==
    \E c, d \in Conns :
        /\ c # d
        /\ sid[c] = sid[d]
        /\ pc[d] = "done"
        /\ page[d] = d
        /\ browser_state[d] = "closed"
        /\ pc[c] = "receive"
        /\ page[c] = c
        /\ sid[c] \in DOMAIN active_sessions
        /\ active_sessions[sid[c]] = NewSession(c)
        /\ browser_state[c] = "open"

\* C10: a connection whose client went away while its frame task was capturing ends
\* its teardown with its Browser Session closed.
C10_DisconnectMidCaptureClosesBrowser ==
    \A c \in Conns :
        (pc[c] = "done" /\ midCapture[c]) => browser_state[page[c]] = "closed"

\* C4: a frame loop never starts two captures less than one target interval apart.
C4_CapturesOneIntervalApart ==
    /\ app_gap = -1 \/ app_gap >= AppTargetInterval
    /\ cdp_gap = -1 \/ cdp_gap >= frame_interval

(***************************************************************************)
(* Properties of the signaling state machine                               *)
(***************************************************************************)
WellFormedOffer(text) ==
    /\ text.t = "map"
    /\ {"sdp", "type"} \subseteq DOMAIN text.m
    /\ text.m["sdp"] # JNull
    /\ text.m["type"] = JStr("offer")

Rejected(k) == rtc_pc[k] \in {"close_pc", "stop_track", "closed"}

\* C5: the first inbound message is accepted as the offer iff it is a mapping with a
\* non-null sdp and type "offer"; any other first message gets no answer, no track,
\* and puts the connection on its way to closed.
C5_OfferAcceptedIffWellFormed ==
    \A k \in RtcConns :
        firstMsg[k] # NoMsg =>
            /\ (offer_sdp[k] # NoDescription) <=> WellFormedOffer(firstMsg[k])
            /\ ~WellFormedOffer(firstMsg[k]) =>
                   Rejected(k) /\ answers[k] = 0 /\ browser_track[k] = "none"

\* an offer of type "answer" was rejected and its connection closed
C5_Witness ==
    \E k \in RtcConns :
        /\ firstMsg[k] = JMap([f \in {"sdp", "type"} |->
                                  IF f = "sdp" THEN JStr("x") ELSE JStr("answer")])
        /\ rtc_pc[k] = "closed"
        /\ k \notin pcs

WellFormedCandidate(text) ==
    /\ text.t = "map"
    /\ "candidate" \in DOMAIN text.m
    /\ text.m["candidate"].t = "map"
    /\ {"candidate", "sdpMid"} \subseteq DOMAIN text.m["candidate"].m

\* C6: once the last message of the candidate loop has been handled, its candidate is
\* held by the peer connection iff it is a mapping containing candidate and sdpMid.
C6_CandidateAddedIffWellFormed ==
    \A k \in RtcConns :
        (/\ lastMsg[k] # NoMsg /\ lastMsg[k].t = "map" /\ "candidate" \in DOMAIN lastMsg[k].m
         /\ rtc_pc[k] # "add_candidate")
            => (lastMsg[k].m["candidate"] \in candidates[k]
                    <=> WellFormedCandidate(lastMsg[k]))

\* C7: while the client stays connected, no message taken by the candidate loop ends
\* the loop.
C7_MalformedNeverClosesConnection ==
    \A k \in RtcConns :
        (lastMsg[k] # NoMsg /\ rtc_chan[k] = "open")
            => rtc_pc[k] \in {"candidates", "add_candidate"}

(***************************************************************************)
(* Release, races and failures of the polling transport                    *)
(***************************************************************************)
\* C11: a control connection that has ended, on whichever path, has left its Browser
\* Session closed and its id out of the registry.
C11_EveryExitReleasesSession ==
    \A c \in Conns :
        pc[c] = "done" =>
            /\ page[c] \in Browsers
            /\ browser_state[page[c]] = "closed"
            /\ sid[c] \notin DOMAIN active_sessions

\* C12: no registered session is ever overwritten: an id that stays registered keeps
\* the Browser Session it was registered with.
C12_RegisteredSessionNeverOverwritten ==
    [][\A id \in SessionIds :
          (id \in DOMAIN active_sessions /\ id \in DOMAIN active_sessions')
              => active_sessions'[id].browser = active_sessions[id].browser]_vars

\* C13: close_browser_session called for an id that is not registered returns at once:
\* nothing is closed and the registry is left as it was.
C13_DestroyUnknownIsNoOp ==
    [][\A c \in Conns :
          (/\ pc[c] = "finally"
           /\ pc'[c] # "finally"
           /\ task[c] # "none"
           /\ sid[c] \notin DOMAIN active_sessions)
              => /\ pc'[c] = "done"
                 /\ active_sessions' = active_sessions
                 /\ browser_state' = browser_state
                 /\ closing' = closing]_vars

\* a connection ended by such a call: the other connection had destroyed the id they
\* shared, and its own teardown found nothing to release
C13_Witness ==
    \E c \in Conns :
        /\ pc[c] = "done"
        /\ task[c] # "none"
        /\ closing[c] = NoBrowser
        /\ destroyed[sid[c]]
        /\ browser_state[page[c]] = "closed"

\* C16: the receive loop and the frame task of a connection never have calls into the
\* Browser Session in flight at the same time.
C16_BrowserCallsSerialized ==
    \A c \in Conns :
        ~(/\ task[c] = "capture"
          /\ pc[c] = "dispatch"
          /\ Head(cmds[c]).op # "sleep")

\* C17: while close_browser_session is closing the Browser Session, the frame task has
\* no capture in flight.
C17_NoCaptureWhileClosing ==
    \A c \in Conns :
        pc[c] \in {"close_context", "close_browser"} => task[c] # "capture"

\* C19: every dispatch of an input event ends back in the receive loop, whether its
\* browser calls returned or raised.
C19_FailedDispatchKeepsSession ==
    [][\A c \in Conns :
          (pc[c] = "dispatch" /\ pc'[c] # "dispatch") => pc'[c] = "receive"]_vars

\* C18: a frame loop one of whose captures has failed has not ended: it stays alive
\* and goes on to capture again.
C18_CaptureFailureKeepsLoopAlive ==
    /\ app_raised => app_pc # "ended"
    /\ cdp_raised => cdp_pc # "ended"

(***************************************************************************)
(* Release and order of the signaling state machine                        *)
(***************************************************************************)
\* C14: a signaling connection that has ended has had its peer connection closed exactly
\* once, is out of pcs, and its track, if one was created, is stopped.
C14_ReleasedExactlyOnce ==
    \A k \in RtcConns :
        rtc_pc[k] = "closed" =>
            /\ closes[k] = 1
            /\ k \notin pcs
            /\ browser_track[k] # "running"

\* C15: the answer is negotiated only with the browser initialized and the track
\* created, it is handed to send_text only when the local description and its sdp are
\* there, and a connection whose local description or sdp is missing sends no answer
\* and is on its way to closed.
C15_AnswerOnlyWhenReady ==
    \A k \in RtcConns :
        /\ (rtc_pc[k] \in {"negotiate", "send_answer", "candidates"} \/ answers[k] > 0)
               => (BrowserInitialized /\ browser_track[k] # "none")
        /\ (rtc_pc[k] = "send_answer" \/ answers[k] > 0)
               => local_description[k] = "described"
        /\ local_description[k] \in {"no_description", "no_sdp"}
               => (answers[k] = 0 /\ Rejected(k))

\* a connection whose local description came without sdp ended without an answer
C15_Witness ==
    \E k \in RtcConns :
        /\ local_description[k] = "no_sdp"
        /\ rtc_pc[k] = "closed"
        /\ answers[k] = 0
        /\ browser_track[k] = "stopped"

\* NoOffer 0, OfferReceived 1, AnswerSent 2, Closed 3
Phase(at) ==
    IF at \in {"idle", "offer"} THEN 0
    ELSE IF at \in {"init_browser", "negotiate", "send_answer"} THEN 1
    ELSE IF at \in {"candidates", "add_candidate"} THEN 2
    ELSE 3

\* C20: a signaling connection only moves forward through NoOffer, OfferReceived,
\* AnswerSent, Closed; it sends at most one answer, and only for a valid offer on
\* entering AnswerSent; it takes candidate messages only in AnswerSent; and once Closed
\* it takes no message and sends nothing.
C20_ForwardOnly ==
    [][\A k \in RtcConns :
          /\ Phase(rtc_pc'[k]) >= Phase(rtc_pc[k])
          /\ answers'[k] <= 1
          /\ answers'[k] # answers[k]
                 => /\ Phase(rtc_pc[k]) = 1
                    /\ Phase(rtc_pc'[k]) = 2
                    /\ WellFormedOffer(firstMsg[k])
          /\ (lastMsg'[k] # lastMsg[k] \/ candidates'[k] # candidates[k])
                 => (Phase(rtc_pc[k]) = 2 /\ answers[k] = 1)
          /\ firstMsg'[k] # firstMsg[k] => Phase(rtc_pc[k]) = 0
          /\ Phase(rtc_pc[k]) = 3
                 => /\ firstMsg'[k] = firstMsg[k]
                    /\ lastMsg'[k] = lastMsg[k]
                    /\ answers'[k] = answers[k]
                    /\ candidates'[k] = candidates[k]]_vars

\* a connection that went through all four phases: a valid offer, one answer, a
\* candidate added, then closed
C20_Witness ==
    \E k \in RtcConns :
        /\ rtc_pc[k] = "closed"
        /\ WellFormedOffer(firstMsg[k])
        /\ answers[k] = 1
        /\ candidates[k] # {}

(***************************************************************************)
(* Input translation and sharing of sessions                               *)
(***************************************************************************)
\* C22: while a pointer-move received with the mouse_down flag false is being handled,
\* no call to the Browser Session is in flight.
C22_MoveWithButtonUpIssuesNoCall ==
    \A c \in Conns :
        ~(/\ pc[c] = "dispatch"
          /\ event[c].type = "mouse"
          /\ event[c].eventType = "mousemove"
          /\ sid[c] \in DOMAIN active_sessions
          /\ ~active_sessions[sid[c]].mouse_down
          /\ Head(cmds[c]).op = "mouse.move")

\* C23: a key press or a typed character is dispatched together with the set of
\* modifiers that are true in its event.
C23_ModifiersPassedWithKey ==
    \A c \in Conns :
        (/\ pc[c] = "dispatch"
         /\ event[c].type = "keyboard"
         /\ Head(cmds[c]).op \in {"keyboard.press", "keyboard.type"})
            => /\ "modifiers" \in DOMAIN Head(cmds[c])
               /\ Head(cmds[c]).modifiers = Modifiers(event[c])

\* C24 as stated: a keyboard event has a call to the Browser Session in flight only
\* when it is a key-down of a special key or of a single character.
C24_OtherKeysDoNothing ==
    \A c \in Conns :
        (pc[c] = "dispatch" /\ event[c].type = "keyboard")
            => /\ event[c].eventType = "keydown"
               /\ event[c].key \in special_keys \/ Len(event[c].key) = 1

\* C24 amended: every keyboard event first brings the page to the front; then a key-down
\* of a special key presses it, of a single character types it, of F5 reloads the page,
\* and any other key-down and every key-up issues no further call.
C24_KeyDispatch ==
    [][\A c \in Conns :
          (pc[c] = "receive" /\ pc'[c] = "dispatch" /\ event'[c].type = "keyboard")
              => LET e == event'[c]
                     down == e.eventType = "keydown"
                 IN  /\ Head(cmds'[c]) = [op |-> "bring_to_front"]
                     /\ Tail(cmds'[c]) =
                            IF down /\ e.key = "Enter"
                            THEN <<[op |-> "keyboard.press", key |-> "Enter"]>>
                            ELSE IF down /\ e.key = "a"
                            THEN <<[op |-> "keyboard.type", key |-> "a"]>>
                            ELSE IF down /\ e.key = "F5" THEN <<[op |-> "reload"]>>
                            ELSE <<>>]_vars

\* the reload of an F5 key-down is in flight
C24_Witness ==
    \E c \in Conns :
        /\ pc[c] = "dispatch"
        /\ event[c].type = "keyboard"
        /\ event[c].key = "F5"
        /\ Head(cmds[c]).op = "reload"

\* C25: two connections on the same session id never both run a receive loop, and never
\* both run a frame task.
C25_OneLoopPerSession ==
    \A c, d \in Conns :
        (c # d /\ sid[c] = sid[d])
            => /\ ~(pc[c] \in {"receive", "dispatch"} /\ pc[d] \in {"receive", "dispatch"})
               /\ ~(/\ task[c] \in {"idle", "capture", "send"} /\ ~cancel[c]
                    /\ task[d] \in {"idle", "capture", "send"} /\ ~cancel[d])

\* C26: a step of a connection (its handler or its frame task) leaves alone the registry
\* entry of every other session id, and the state and mouse button of every browser
\* launched for another session id.
C26_SessionsIndependent ==
    [][\A c \in Conns :
          (\/ pc'[c] # pc[c]
           \/ task'[c] # task[c]
           \/ cmds'[c] # cmds[c]
           \/ cancel'[c] # cancel[c]
           \/ shot'[c] # shot[c])
              => /\ \A id \in SessionIds \ {sid'[c]} :
                        /\ (id \in DOMAIN active_sessions') <=> (id \in DOMAIN active_sessions)
                        /\ id \in DOMAIN active_sessions
                               => active_sessions'[id] = active_sessions[id]
                 /\ \A b \in Browsers :
                        sid'[b] # sid'[c]
                            => /\ browser_state'[b] = browser_state[b]
                               /\ button'[b] = button[b]]_vars

\* one session torn down while the session of the other id still holds its pressed flag,
\* its last frame and its open browser
C26_Witness ==
    \E c, d \in Conns :
        /\ sid[c] # sid[d]
        /\ pc[d] = "done"
        /\ destroyed[sid[d]]
        /\ browser_state[d] = "closed"
        /\ pc[c] = "receive"
        /\ sid[c] \in DOMAIN active_sessions
        /\ active_sessions[sid[c]].mouse_down
        /\ active_sessions[sid[c]].last_screenshot # NoFrame
        /\ browser_state[c] = "open"

\* C27: between two events, once a pointer event has been handled for the session, its
\* mouse_down flag is true exactly when the browser's mouse button is held down.
C27_FlagAgreesWithButton ==
    \A c \in Conns :
        (/\ pc[c] = "receive"
         /\ sid[c] \in DOMAIN active_sessions
         /\ lastBtnEvent[sid[c]] # "none"
         /\ page[c] \in Browsers)
            => (active_sessions[sid[c]].mouse_down <=> button[page[c]])

\* C28: whenever a connection issues a capture or an input call, the browser it goes to
\* is open and no teardown is closing it.
C28_NoCallToReleasedBrowser ==
    [][\A c \in Conns :
          (\/ task'[c] = "capture" /\ task[c] # "capture"
           \/ pc'[c] = "initial_capture" /\ pc[c] # "initial_capture"
           \/ /\ cmds'[c] # cmds[c]
              /\ cmds'[c] # <<>>
              /\ Head(cmds'[c]).op # "sleep")
              => /\ page'[c] \in Browsers
                 /\ browser_state'[page'[c]] = "open"
                 /\ ~\E d \in Conns :
                        /\ pc'[d] \in {"close_context", "close_browser"}
                        /\ closing'[d] = page'[c]]_vars

(***************************************************************************)
(* The real-time transport: the track and the shared browser               *)
(***************************************************************************)
\* C21: every recv() call goes on to return a frame, of the output resolution:
\* self.frame as the last successful capture left it when the most recent capture
\* succeeded, and otherwise (no capture finished yet, or the most recent one failed) a
\* frame carrying the capture-error marker.
C21_RecvFrameOrMarkedPlaceholder ==
    [][/\ recv_calls' # recv_calls => recv_pc' = "next_timestamp"
       /\ recv_count' # recv_count =>
              /\ recv_frame'.width = OutWidth
              /\ recv_frame'.height = OutHeight
              /\ last_capture = "ok" => (recv_frame' = track_frame /\ ~recv_frame'.marker)
              /\ last_capture # "ok" => recv_frame'.marker]_vars

\* C29: initialize_browser launches at most one browser.
C29_AtMostOneBrowserLaunched ==
    launched <= 1

=============================================================================
